---------------------------- MODULE Spec2Model ----------------------------
(***************************************************************************)
(* Graded stepwise execution engine of agent-os-beta:                      *)
(*   backend/core/execution.py  run_mission_loop, evaluate_output,         *)
(*                              request_human_intervention                 *)
(*   backend/api/websocket.py   the HUMAN_RESPONSE branch of               *)
(*                              websocket_handler                          *)
(*   backend/tools/base_tools.py  human_input_store                        *)
(*                                                                         *)
(* Every mission is one run of the coroutine run_mission_loop.  Its local  *)
(* variables are functions of the mission; pc is the await at which the    *)
(* coroutine is suspended.  Python's 0-based step_index is kept 1-based    *)
(* here (the index into the plan sequence).  Texts are strings; a JSON     *)
(* value is a tagged record so that a malformed field stays a value of its *)
(* own type.                                                               *)
(***************************************************************************)
EXTENDS Integers, Sequences, FiniteSets, TLC

(* ------------------------------ bounds -------------------------------- *)
\* longest plan
MaxSteps == 2
\* RETRY decisions a client gives to one step
MaxRetries == 1
\* last second of the event-loop clock
MaxTime == 2
\* START_MISSION requests one connection gets a mission record for
MaxMissions == 2

(* --------------------------- program constants ------------------------ *)
\* execution.py:53  attempts_allowed = 3
InitialAttempts == 3
\* execution.py:136  attempts_allowed += 2
ExtraAttempts == 2
\* execution.py:148, 150, 152
Threshold1 == 85
Threshold2 == 75
Threshold3 == 60

Missions == {1, 2}

(* ------------------------------ JSON values --------------------------- *)
JInt(n) == [t |-> "int", n |-> n, s |-> ""]
JStr(s) == [t |-> "str", n |-> 0, s |-> s]
JMissing == [t |-> "missing", n |-> 0, s |-> ""]

\* dict.get(key, default) of a parsed JSON object
Get(field, default) == IF field = JMissing THEN default ELSE field

(* ------------------------------ inputs -------------------------------- *)
\* what crew.kickoff returns, as text
WorkerOutputs == {"r1"}
\* what crew.kickoff raises, as str(e)
WorkerErrors == {"boom"}
\* agents_map, in insertion order: list(agents_map.values())[0] is "a1"
AgentIds == <<"a1", "a2">>
\* step.get('agentId'): an unknown id (the first step's), a known id
PlanAgentIds == {"zz", "a2"}

Plans ==
    { p \in UNION { [1..n -> [agentId : PlanAgentIds, instruction : {"do"}]] : n \in 1..MaxSteps } :
        \A i \in DOMAIN p : p[i].agentId = (IF i = 1 THEN "zz" ELSE "a2") }

\* the evaluator model's reply: the call raises, the text is no JSON, the
\* JSON is no object, or a JSON object with any of the four fields
ReplyScores == {JMissing, JStr("high"), JInt(50), JInt(90)}
ReplyThresholds == {JMissing, JInt(70)}
ReplyStatuses == {JMissing, JStr("Passed"), JStr("Failed")}
ReplyFeedbacks == {JMissing}
Replies ==
    [kind : {"raise", "text", "list"}, score : {JMissing}, threshold : {JMissing},
     status : {JMissing}, feedback : {JMissing}]
    \cup
    [kind : {"object"}, score : ReplyScores, threshold : ReplyThresholds,
     status : ReplyStatuses, feedback : ReplyFeedbacks]

\* data["content"] of a HUMAN_RESPONSE: an object with an action, or one
\* without ("" stands for the missing key)
NoAction == ""
Contents == {"PROCEED", "IGNORE", "RETRY", "CANCEL", "SKIP", NoAction}

ReqIds == 0..MaxTime

\* the replies and decisions drawn when two missions run at once: the
\* evaluator fails or passes the result, the human proceeds, retries or cancels
MultiReplies ==
    { r \in Replies : \/ r.kind = "raise"
                      \/ /\ r.kind = "object" /\ r.score = JInt(90)
                         /\ r.threshold = JInt(70) /\ r.status = JStr("Passed") }
MultiContents == {"PROCEED", "RETRY", "CANCEL"}

(* ------------------- inputs of websocket_handler ---------------------- *)
\* payload["agents"]: missing, empty, or the ids of the configured agents
InvalidAgents == { [t |-> "missing", v |-> <<>>], [t |-> "list", v |-> <<>>] }
ValidAgents == { [t |-> "list", v |-> <<"a1">>], [t |-> "list", v |-> <<"qc_agent", "a1">>] }

\* payload["plan"]: missing, not a list, empty, or 1..MaxSteps steps of which
\* the first may ask for training
HandlerSteps ==
    [agentId : {"a1", "qc_agent", "zz"}, instruction : {"do"}, trainingIterations : {0, 1}]
InvalidPlans ==
    { [t |-> "missing", v |-> <<>>], [t |-> "str", v |-> <<>>], [t |-> "list", v |-> <<>>] }
ValidPlans ==
    { [t |-> "list", v |-> q] :
        q \in { q \in UNION { [1..n -> HandlerSteps] : n \in 1..MaxSteps } :
                  \A i \in DOMAIN q : i > 1 => q[i].trainingIterations = 0 } }

NoPayload == [present |-> FALSE, plan |-> [t |-> "missing", v |-> <<>>],
              agents |-> [t |-> "missing", v |-> <<>>]]
Payloads ==
    {NoPayload}
    \cup [present : {TRUE}, plan : InvalidPlans, agents : InvalidAgents \cup ValidAgents]
    \cup [present : {TRUE}, plan : ValidPlans, agents : ValidAgents]
    \cup { [present |-> TRUE, plan |-> pl, agents |-> ag] :
             pl \in {pl \in ValidPlans : Len(pl.v) = 1}, ag \in InvalidAgents }

\* the messages receive_json returns; requestId -1 stands for a missing key
Messages ==
    [action : {"START_MISSION"}, payload : Payloads, requestId : {-1}, content : {""}]
    \cup
    [action : {"HUMAN_RESPONSE"}, payload : {NoPayload}, requestId : {-1, 0},
     content : {"PROCEED"}]
    \cup
    [action : {"PING", "INVALID_JSON"}, payload : {NoPayload}, requestId : {-1},
     content : {""}]
NoMessage == [action |-> "", payload |-> NoPayload, requestId |-> -1, content |-> ""]

\* what create_agents, crew.train and crew.kickoff raise
SetupErrors == {"bad agent"}
TrainErrors == {"train failed"}

VARIABLES
    pc,               \* where each run_mission_loop is suspended
    plan,             \* plan argument
    step_index,       \* for-loop index (1-based)
    agent,            \* agent chosen for the step
    instruction,      \* step.get('instruction', '')
    attempts_allowed,
    current_attempt,
    step_complete,
    history,          \* context.history
    full_description, \* the Task description of the attempt
    result_content,
    grade,            \* SupervisorGrade of the attempt
    req_id,           \* req_id of request_human_intervention
    user_decision,    \* the popped response
    request,          \* the INTERVENTION_REQUIRED message awaiting its decision
    human_input_store,\* tools.base_tools.human_input_store
    now,              \* int(loop.time())
    reply,            \* the evaluator reply behind the grade being handled
    outcome,          \* per step: how step_complete became True ("" while it is False)
    worker_calls,     \* crew.kickoff calls of the current step
    eval_calls,       \* evaluate_output calls of the current step
    requests,         \* INTERVENTION_REQUIRED messages sent in the current step
    retries,          \* RETRY decisions consumed in the current step
    contributor,      \* per history entry: the step that appended it
    warnings,         \* warnings run_mission_loop has logged
    answered,         \* whether the client has answered the mission's outstanding request
    \* websocket_handler (one connection)
    h_pc,             \* where websocket_handler is suspended
    api_key,          \* whether GEMINI_API_KEY is set
    data,             \* the message websocket_handler received last
    mission_id,       \* create_mission's return value
    db,               \* the missions table: row i is mission id i
    sent,             \* events sent since the last message was received
    tasks,            \* create_tasks' return value for the message being handled
    h_warnings,       \* warnings create_tasks printed for the message being handled
    kickoffs,         \* crew.kickoff calls of websocket_handler, per mission id
    \* the tool call made inside crew.kickoff (worker thread)
    inbox,            \* messages the client sent that receive_json has not returned yet
    tool_pc,          \* where the tool call of the running crew is
    hook_start,       \* what add_event did in on_tool_start: "", "logged" or "failed"
    hook_end          \* what add_event did in on_tool_end

vars == <<pc, plan, step_index, agent, instruction, attempts_allowed, current_attempt,
          step_complete, history, full_description, result_content, grade, req_id,
          user_decision, request, human_input_store, now, reply, outcome,
          worker_calls, eval_calls, requests, retries, contributor, warnings, answered,
          h_pc, api_key, data, mission_id, db, sent, tasks, h_warnings, kickoffs,
          inbox, tool_pc, hook_start, hook_end>>

\* the state of websocket_handler
handlerVars == <<h_pc, api_key, data, mission_id, db, sent, tasks, h_warnings, kickoffs,
                 inbox, tool_pc, hook_start, hook_end>>

\* the state of the tool call
toolVars == <<inbox, tool_pc, hook_start, hook_end>>

\* mutation of BaseThreshold: only the third attempt gets the lowest threshold
BaseThresholdThirdOnly(attempt) ==
    IF attempt = 1 THEN Threshold1
    ELSE IF attempt = 2 THEN Threshold2
    ELSE IF attempt = 3 THEN Threshold3
    ELSE Threshold1

(* ------------------------- evaluate_output ---------------------------- *)
\* execution.py:147-152
BaseThreshold(attempt) ==
    IF attempt = 1 THEN Threshold1
    ELSE IF attempt = 2 THEN Threshold2
    ELSE Threshold3

\* execution.py:188-191: llm.call raises, response is no JSON text, or
\* data.get fails because the JSON value is no object
EvaluationRaises(r) == r.kind \in {"raise", "text", "list"}

\* mutation of FallbackGrade: the except branch lets the work pass
FallbackGradePassing(attempt) ==
    [score |-> JInt(0), threshold |-> JInt(BaseThreshold(attempt)),
     status |-> JStr("Passed"), feedback |-> JStr("Error during grading.")]

\* execution.py:201
FallbackGrade(attempt) ==
    [score |-> JInt(0), threshold |-> JInt(BaseThreshold(attempt)),
     status |-> JStr("Failed"), feedback |-> JStr("Error during grading.")]

\* execution.py:192-197
ParsedGrade(r, attempt) ==
    [score |-> Get(r.score, JInt(0)),
     threshold |-> Get(r.threshold, JInt(BaseThreshold(attempt))),
     status |-> Get(r.status, JStr("Failed")),
     feedback |-> Get(r.feedback, JStr("No feedback provided."))]

\* execution.py:145-201
evaluate_output(r, attempt) ==
    IF EvaluationRaises(r) THEN FallbackGrade(attempt) ELSE ParsedGrade(r, attempt)

\* execution.py:101  grade.status == "Passed"
IsPassed(g) == g.status = JStr("Passed")

\* mutation of ContextStr: the outputs are labelled from 0
RECURSIVE ContextStrFromZero(_, _)
ContextStrFromZero(h, i) ==
    IF i > Len(h) THEN ""
    ELSE "Previous Output " \o ToString(i - 1) \o ":\n" \o h[i]
         \o (IF i < Len(h) THEN "\n" ELSE "") \o ContextStrFromZero(h, i + 1)

(* ------------------------- run_mission_loop --------------------------- *)
\* execution.py:60  "\n".join(f"Previous Output {i+1}:\n{out}" ...)
RECURSIVE ContextStr(_, _)
ContextStr(h, i) ==
    IF i > Len(h) THEN ""
    ELSE "Previous Output " \o ToString(i) \o ":\n" \o h[i]
         \o (IF i < Len(h) THEN "\n" ELSE "") \o ContextStr(h, i + 1)

\* execution.py:61
FullDescription(instr, h) ==
    instr \o "\n\nCONTEXT FROM PREVIOUS STEPS:\n" \o ContextStr(h, 1)

\* execution.py:44-48  agents_map.get(agent_id), else the first agent
AgentFor(agent_id) ==
    IF \E i \in DOMAIN AgentIds : AgentIds[i] = agent_id THEN agent_id ELSE AgentIds[1]

\* mutation of AppendResult: the result is put in front of the earlier ones
AppendResultFront(h, r) == <<r>> \o h

\* mutation of AfterFailedAttempt: the failed result is kept in the context
AfterFailedAttemptKeeps(h, r) == Append(h, r)

\* execution.py:111-113  the retry branch leaves context.history as it is
AfterFailedAttempt(h, r) == h

\* mutation of AppendResult: the result is appended twice
AppendResultTwice(h, r) == Append(Append(h, r), r)

\* execution.py:106, 126  context.history.append(result_content)
AppendResult(h, r) == Append(h, r)

\* mutation of AttemptsLeft: the human is asked one attempt early
AttemptsLeftMinusOne(cur, allowed) == cur + 1 < allowed

\* mutation of AttemptsLeft: the last allowed attempt is retried too
AttemptsLeftOrEqual(cur, allowed) == cur <= allowed

\* execution.py:111  current_attempt < attempts_allowed
AttemptsLeft(cur, allowed) == cur < allowed

\* mutation of GrantRetry: RETRY grants no attempt
GrantRetryNone(allowed) == allowed

\* mutation of GrantRetry: one extra attempt instead of two
GrantRetryOne(allowed) == allowed + 1

\* execution.py:136  attempts_allowed += 2
GrantRetry(allowed) == allowed + ExtraAttempts

\* mutation of Branch: IGNORE falls into the PROCEED branch
BranchIgnoreAsProceed(action) ==
    IF action = "PROCEED" \/ action = "IGNORE" THEN "PROCEED"
    ELSE IF action = "RETRY" THEN "RETRY"
    ELSE IF action = "CANCEL" THEN "CANCEL"
    ELSE "else"

\* mutation of Branch: the CANCEL test is missing, so CANCEL reaches the else
BranchWithoutCancel(action) ==
    IF action = "PROCEED" THEN "PROCEED"
    ELSE IF action = "IGNORE" THEN "IGNORE"
    ELSE IF action = "RETRY" THEN "RETRY"
    ELSE "else"

\* execution.py:124-143: the branch taken for user_decision['action']
Branch(action) ==
    IF action = "PROCEED" THEN "PROCEED"
    ELSE IF action = "IGNORE" THEN "IGNORE"
    ELSE IF action = "RETRY" THEN "RETRY"
    ELSE IF action = "CANCEL" THEN "CANCEL"
    ELSE "else"

\* mutation of ErrorResult: the exception's text alone is the result
ErrorResultBare(e) == e

\* execution.py:91
ErrorResult(e) == "Error during execution: " \o e

NoGrade ==
    [score |-> JMissing, threshold |-> JMissing, status |-> JMissing, feedback |-> JMissing]
NoReply ==
    [kind |-> "none", score |-> JMissing, threshold |-> JMissing, status |-> JMissing,
     feedback |-> JMissing]
NoRequest == [requestId |-> -1, failedOutput |-> "", score |-> JMissing,
              threshold |-> JMissing, instruction |-> "", agentName |-> ""]

StepIdx == 1..MaxSteps

InitCommon ==
    /\ plan \in [Missions -> Plans]
    /\ \A m \in Missions : plan[m] = plan[1]
    /\ step_index = [m \in Missions |-> 0]
    /\ agent = [m \in Missions |-> ""]
    /\ instruction = [m \in Missions |-> ""]
    /\ attempts_allowed = [m \in Missions |-> 0]
    /\ current_attempt = [m \in Missions |-> 0]
    /\ step_complete = [m \in Missions |-> FALSE]
    /\ history = [m \in Missions |-> <<>>]
    /\ full_description = [m \in Missions |-> ""]
    /\ result_content = [m \in Missions |-> ""]
    /\ grade = [m \in Missions |-> NoGrade]
    /\ req_id = [m \in Missions |-> -1]
    /\ user_decision = [m \in Missions |-> ""]
    /\ request = [m \in Missions |-> NoRequest]
    /\ human_input_store = << >>
    /\ now = 0
    /\ reply = [m \in Missions |-> NoReply]
    /\ outcome = [m \in Missions |-> [k \in StepIdx |-> ""]]
    /\ worker_calls = [m \in Missions |-> 0]
    /\ eval_calls = [m \in Missions |-> 0]
    /\ requests = [m \in Missions |-> 0]
    /\ retries = [m \in Missions |-> 0]
    /\ contributor = [m \in Missions |-> <<>>]
    /\ warnings = [m \in Missions |-> 0]
    /\ answered = [m \in Missions |-> FALSE]

\* websocket.py:26  the connection is accepted and nothing is received yet
InitHandlerVars ==
    /\ h_pc = "receive"
    /\ data = NoMessage
    /\ mission_id = 0
    /\ db = <<>>
    /\ sent = <<>>
    /\ tasks = <<>>
    /\ h_warnings = 0
    /\ kickoffs = [i \in 1..MaxMissions |-> 0]
    /\ inbox = <<>>
    /\ tool_pc = "idle"
    /\ hook_start = ""
    /\ hook_end = ""

\* one mission is running, the other never starts
Init ==
    /\ InitCommon
    /\ InitHandlerVars
    /\ api_key = TRUE
    /\ pc = [m \in Missions |-> IF m = 1 THEN "for" ELSE "off"]

Bump(f, m) == [f EXCEPT ![m] = @ + 1]

\* execution.py:43-55: the next iteration of the for loop, or its end
ForNext(m) ==
    /\ UNCHANGED <<warnings, answered, handlerVars>>
    /\ pc[m] = "for"
    /\ IF step_index[m] < Len(plan[m])
       THEN /\ step_index' = [step_index EXCEPT ![m] = @ + 1]
            /\ agent' = [agent EXCEPT ![m] = AgentFor(plan[m][step_index[m] + 1].agentId)]
            /\ instruction' = [instruction EXCEPT ![m] = plan[m][step_index[m] + 1].instruction]
            /\ attempts_allowed' = [attempts_allowed EXCEPT ![m] = InitialAttempts]
            /\ current_attempt' = [current_attempt EXCEPT ![m] = 1]
            /\ step_complete' = [step_complete EXCEPT ![m] = FALSE]
            /\ worker_calls' = [worker_calls EXCEPT ![m] = 0]
            /\ eval_calls' = [eval_calls EXCEPT ![m] = 0]
            /\ requests' = [requests EXCEPT ![m] = 0]
            /\ retries' = [retries EXCEPT ![m] = 0]
            /\ pc' = [pc EXCEPT ![m] = "while"]
       ELSE /\ pc' = [pc EXCEPT ![m] = "done"]
            /\ UNCHANGED <<step_index, agent, instruction, attempts_allowed,
                           current_attempt, step_complete, worker_calls, eval_calls,
                           requests, retries>>
    /\ UNCHANGED <<plan, history, full_description, result_content, grade, req_id,
                   user_decision, request, human_input_store, now, reply, outcome,
                   contributor>>

\* mutation of LoopContinues: the last allowed attempt is not made
LoopContinuesStrict(cur, allowed, complete) == cur < allowed /\ ~complete

\* execution.py:57  while current_attempt <= attempts_allowed and not step_complete
LoopContinues(cur, allowed, complete) == cur <= allowed /\ ~complete

\* execution.py:57-88: the while test; when it holds the attempt's Task is
\* built and crew.kickoff is handed to the executor
WhileTest(m) ==
    /\ UNCHANGED <<warnings, answered, handlerVars>>
    /\ pc[m] = "while"
    /\ IF LoopContinues(current_attempt[m], attempts_allowed[m], step_complete[m])
       THEN /\ full_description' =
                  [full_description EXCEPT ![m] = FullDescription(instruction[m], history[m])]
            /\ worker_calls' = Bump(worker_calls, m)
            /\ pc' = [pc EXCEPT ![m] = "kickoff"]
       ELSE /\ pc' = [pc EXCEPT ![m] = "for"]
            /\ UNCHANGED <<full_description, worker_calls>>
    /\ UNCHANGED <<plan, step_index, agent, instruction, attempts_allowed, current_attempt,
                   step_complete, history, result_content, grade, req_id, user_decision,
                   request, human_input_store, now, reply, outcome, eval_calls, requests,
                   retries, contributor>>

\* execution.py:87-96: crew.kickoff returns or raises; evaluate_output is called
KickoffReturns(m) ==
    /\ UNCHANGED <<warnings, answered, handlerVars>>
    /\ pc[m] = "kickoff"
    /\ \/ \E out \in WorkerOutputs : result_content' = [result_content EXCEPT ![m] = out]
       \/ \E e \in WorkerErrors :
              result_content' = [result_content EXCEPT ![m] = ErrorResult(e)]
    /\ eval_calls' = Bump(eval_calls, m)
    /\ pc' = [pc EXCEPT ![m] = "evaluate"]
    /\ UNCHANGED <<plan, step_index, agent, instruction, attempts_allowed, current_attempt,
                   step_complete, history, full_description, grade, req_id, user_decision,
                   request, human_input_store, now, reply, outcome, worker_calls, requests,
                   retries, contributor>>

\* execution.py:96, 187-201: the evaluator call ends and evaluate_output returns
EvaluateReturns(m) ==
    /\ UNCHANGED <<warnings, answered, handlerVars>>
    /\ pc[m] = "evaluate"
    /\ \E r \in (IF \A x \in Missions : pc[x] # "off" THEN MultiReplies ELSE Replies) :
          /\ reply' = [reply EXCEPT ![m] = r]
          /\ grade' = [grade EXCEPT ![m] = evaluate_output(r, current_attempt[m])]
    /\ pc' = [pc EXCEPT ![m] = "graded"]
    /\ UNCHANGED <<plan, step_index, agent, instruction, attempts_allowed, current_attempt,
                   step_complete, history, full_description, result_content, req_id,
                   user_decision, request, human_input_store, now, outcome, worker_calls,
                   eval_calls, requests, retries, contributor>>

\* mutation of SendRequest: the message carries the threshold as its score
SendRequestWrongScore(m, t) ==
    /\ now' = t
    /\ req_id' = [req_id EXCEPT ![m] = t]
    /\ request' = [request EXCEPT ![m] =
                      [requestId |-> t, agentName |-> agent[m],
                       instruction |-> instruction[m],
                       failedOutput |-> result_content[m],
                       score |-> grade[m].threshold, threshold |-> grade[m].threshold]]
    /\ requests' = [requests EXCEPT ![m] = @ + 1]
    /\ pc' = [pc EXCEPT ![m] = "gate"]

\* mutation of SendRequest: the loop goes on without waiting for the decision
SendRequestNoBlock(m, t) ==
    /\ now' = t
    /\ req_id' = [req_id EXCEPT ![m] = t]
    /\ request' = [request EXCEPT ![m] =
                      [requestId |-> t, agentName |-> agent[m],
                       instruction |-> instruction[m],
                       failedOutput |-> result_content[m],
                       score |-> grade[m].score, threshold |-> grade[m].threshold]]
    /\ requests' = [requests EXCEPT ![m] = @ + 1]
    /\ pc' = [pc EXCEPT ![m] = "while"]

\* execution.py:205-217: request_human_intervention sends INTERVENTION_REQUIRED
\* under the req_id of the second t the event loop's clock shows
SendRequest(m, t) ==
    /\ now' = t
    /\ req_id' = [req_id EXCEPT ![m] = t]
    /\ request' = [request EXCEPT ![m] =
                      [requestId |-> t, agentName |-> agent[m],
                       instruction |-> instruction[m],
                       failedOutput |-> result_content[m],
                       score |-> grade[m].score, threshold |-> grade[m].threshold]]
    /\ requests' = Bump(requests, m)
    /\ pc' = [pc EXCEPT ![m] = "gate"]

\* execution.py:99-122: the branch on the grade
HandleGrade(m) ==
    /\ UNCHANGED <<warnings, answered, handlerVars>>
    /\ pc[m] = "graded"
    /\ \/ /\ IsPassed(grade[m])
          /\ history' = [history EXCEPT ![m] = AppendResult(@, result_content[m])]
          /\ contributor' = [contributor EXCEPT ![m] = Append(@, step_index[m])]
          /\ step_complete' = [step_complete EXCEPT ![m] = TRUE]
          /\ outcome' = [outcome EXCEPT ![m][step_index[m]] = "Passed"]
          /\ pc' = [pc EXCEPT ![m] = "while"]
          /\ UNCHANGED <<current_attempt, req_id, request, now, requests>>
       \/ /\ ~IsPassed(grade[m])
          /\ AttemptsLeft(current_attempt[m], attempts_allowed[m])
          /\ current_attempt' = [current_attempt EXCEPT ![m] = @ + 1]
          /\ history' = [history EXCEPT ![m] = AfterFailedAttempt(@, result_content[m])]
          /\ pc' = [pc EXCEPT ![m] = "while"]
          /\ UNCHANGED <<contributor, step_complete, outcome, req_id, request,
                         now, requests>>
       \/ /\ ~IsPassed(grade[m])
          /\ ~AttemptsLeft(current_attempt[m], attempts_allowed[m])
          /\ \E t \in {now, now + 1} : t <= MaxTime /\ SendRequest(m, t)
          /\ UNCHANGED <<history, contributor, step_complete, outcome, current_attempt>>
    /\ reply' = [reply EXCEPT ![m] = NoReply]
    /\ UNCHANGED <<plan, step_index, agent, instruction, attempts_allowed, full_description,
                   result_content, grade, user_decision, human_input_store,
                   worker_calls, eval_calls, retries>>

\* mutation of Pop: the entry is read and left in the dict
PopKeeps(store, key) == store

\* dict.pop(key)
Pop(store, key) == [k \in DOMAIN store \ {key} |-> store[k]]

\* execution.py:224-228, 124-143: the wait ends when req_id is in the store;
\* the response is popped and the loop acts on its 'action'
GateReturn(m) ==
    /\ UNCHANGED <<warnings, handlerVars>>
    /\ answered' = [answered EXCEPT ![m] = FALSE]
    /\ pc[m] = "gate"
    /\ req_id[m] \in DOMAIN human_input_store
    /\ LET d == human_input_store[req_id[m]]
           k == step_index[m]
       IN  /\ human_input_store' = Pop(human_input_store, req_id[m])
           /\ user_decision' = [user_decision EXCEPT ![m] = d]
           /\ \/ /\ d = NoAction            \* user_decision['action'] raises
                 /\ pc' = [pc EXCEPT ![m] = "raised"]
                 /\ UNCHANGED <<history, contributor, step_complete, outcome,
                                attempts_allowed, current_attempt, retries>>
              \/ /\ d # NoAction /\ Branch(d) = "PROCEED"
                 /\ history' = [history EXCEPT ![m] = AppendResult(@, result_content[m])]
                 /\ contributor' = [contributor EXCEPT ![m] = Append(@, k)]
                 /\ step_complete' = [step_complete EXCEPT ![m] = TRUE]
                 /\ outcome' = [outcome EXCEPT ![m][k] = "PROCEED"]
                 /\ pc' = [pc EXCEPT ![m] = "while"]
                 /\ UNCHANGED <<attempts_allowed, current_attempt, retries>>
              \/ /\ d # NoAction /\ Branch(d) = "IGNORE"
                 /\ step_complete' = [step_complete EXCEPT ![m] = TRUE]
                 /\ outcome' = [outcome EXCEPT ![m][k] = "IGNORE"]
                 /\ pc' = [pc EXCEPT ![m] = "while"]
                 /\ UNCHANGED <<history, contributor, attempts_allowed, current_attempt,
                                retries>>
              \/ /\ d # NoAction /\ Branch(d) = "RETRY"
                 /\ attempts_allowed' = [attempts_allowed EXCEPT ![m] = GrantRetry(@)]
                 /\ current_attempt' = [current_attempt EXCEPT ![m] = @ + 1]
                 /\ retries' = Bump(retries, m)
                 /\ pc' = [pc EXCEPT ![m] = "while"]
                 /\ UNCHANGED <<history, contributor, step_complete, outcome>>
              \/ /\ d # NoAction /\ Branch(d) = "CANCEL"
                 /\ pc' = [pc EXCEPT ![m] = "cancelled"]
                 /\ UNCHANGED <<history, contributor, step_complete, outcome,
                                attempts_allowed, current_attempt, retries>>
              \/ /\ d # NoAction /\ Branch(d) = "else"
                 /\ step_complete' = [step_complete EXCEPT ![m] = TRUE]
                 /\ outcome' = [outcome EXCEPT ![m][k] = "else"]
                 /\ pc' = [pc EXCEPT ![m] = "while"]
                 /\ UNCHANGED <<history, contributor, attempts_allowed, current_attempt,
                                retries>>
    /\ request' = [request EXCEPT ![m] = NoRequest]
    /\ UNCHANGED <<plan, step_index, agent, instruction, full_description, result_content,
                   grade, req_id, now, reply, worker_calls, eval_calls, requests>>

(* ------------------------- websocket_handler -------------------------- *)
\* the missions whose INTERVENTION_REQUIRED under rid is awaiting its decision
Waiting(rid) == {m \in Missions : pc[m] = "gate" /\ req_id[m] = rid}

\* websocket.py:172-174: a HUMAN_RESPONSE with requestId and content.  The
\* client answers requests that are outstanding (it may answer one twice),
\* and grants extra attempts only while no running step has had MaxRetries.
HumanResponse(rid, content) ==
    /\ UNCHANGED <<warnings, answered, handlerVars>>
    /\ Waiting(rid) # {}
    /\ (\A x \in Missions : pc[x] # "off") => content \in MultiContents
    /\ content = "RETRY" =>
          \A m \in Missions : retries[m] < MaxRetries
    /\ human_input_store' =
          [k \in DOMAIN human_input_store \cup {rid} |->
              IF k = rid THEN content ELSE human_input_store[k]]
    /\ UNCHANGED <<pc, plan, step_index, agent, instruction, attempts_allowed,
                   current_attempt, step_complete, history, full_description,
                   result_content, grade, req_id, user_decision, request, now, reply,
                   outcome, worker_calls, eval_calls, requests, retries, contributor>>

Next ==
    \/ \E m \in Missions : ForNext(m)
    \/ \E m \in Missions : WhileTest(m)
    \/ \E m \in Missions : KickoffReturns(m)
    \/ \E m \in Missions : EvaluateReturns(m)
    \/ \E m \in Missions : HandleGrade(m)
    \/ \E m \in Missions : GateReturn(m)
    \/ \E rid \in ReqIds, content \in Contents : HumanResponse(rid, content)

Spec == Init /\ [][Next]_vars

(* ------------- two missions of one process run concurrently ----------- *)
\* both coroutines share human_input_store and the event-loop clock
InitMulti ==
    /\ InitCommon
    /\ InitHandlerVars
    /\ api_key = TRUE
    /\ Len(plan[1]) = 1
    /\ pc = [m \in Missions |-> "for"]

SpecMulti == InitMulti /\ [][Next]_vars

(* ------ two missions, a client that answers each request once --------- *)
\* websocket.py:172-174: the HUMAN_RESPONSE the client sends for the request
\* mission m published; it is stored under that request's id.  The client
\* answers a request once and says RETRY at most MaxRetries times per step.
AnswerRequest(m, content) ==
    /\ pc[m] = "gate"
    /\ ~answered[m]
    /\ content = "RETRY" => retries[m] < MaxRetries
    /\ answered' = [answered EXCEPT ![m] = TRUE]
    /\ human_input_store' =
          [k \in DOMAIN human_input_store \cup {req_id[m]} |->
              IF k = req_id[m] THEN content ELSE human_input_store[k]]
    /\ UNCHANGED <<pc, plan, step_index, agent, instruction, attempts_allowed,
                   current_attempt, step_complete, history, full_description,
                   result_content, grade, req_id, user_decision, request, now, reply,
                   outcome, worker_calls, eval_calls, requests, retries, contributor,
                   warnings, handlerVars>>

\* execution.py:43-143, 203-228: a step of mission m's coroutine
MissionStep(m) ==
    \/ ForNext(m)
    \/ WhileTest(m)
    \/ KickoffReturns(m)
    \/ EvaluateReturns(m)
    \/ HandleGrade(m)
    \/ GateReturn(m)

NextFair ==
    \/ \E m \in Missions : MissionStep(m)
    \/ \E m \in Missions, content \in MultiContents : AnswerRequest(m, content)

\* the event loop runs every coroutine that can run; every worker and
\* evaluator call returns; the client answers every request
Fairness ==
    \A m \in Missions :
        /\ WF_vars(MissionStep(m))
        /\ WF_vars(\E content \in MultiContents : AnswerRequest(m, content))

SpecFair == InitMulti /\ [][NextFair]_vars /\ Fairness

(* ====================================================================== *)
(* websocket_handler and create_tasks                                     *)
(* ====================================================================== *)
\* agents.py:163-226  the map's keys in insertion order; the value of key
\* "qc_agent" is the injected QC agent, the value of any other key k is k's agent
create_agents(ids) ==
    IF \E i \in DOMAIN ids : ids[i] = "qc_agent" THEN ids ELSE Append(ids, "qc_agent")

\* agents_map.get(agent_id), "" for None
MapGet(agents_map, agent_id) ==
    IF \E i \in DOMAIN agents_map : agents_map[i] = agent_id THEN agent_id ELSE ""

\* agents.py:257-260  the step's agent, or the first value of the map
StepAgent(agents_map, agent_id) ==
    IF MapGet(agents_map, agent_id) # "" THEN agent_id ELSE agents_map[1]

Task(description, expected_output, a) ==
    [description |-> description, expected_output |-> expected_output, agent |-> a]

\* mutation of NeedsReview: every step is reviewed
NeedsReviewAlways(qc_agent, a) == qc_agent # ""

\* agents.py:272  if qc_agent and agent != qc_agent
NeedsReview(qc_agent, a) == qc_agent # "" /\ a # qc_agent

\* agents.py:249-279  the loop over the plan, from step i on
RECURSIVE TasksFrom(_, _, _, _)
TasksFrom(plan_, agents_map, i, acc) ==
    IF i > Len(plan_) THEN acc
    ELSE LET qc_agent == MapGet(agents_map, "qc_agent")
             a == StepAgent(agents_map, plan_[i].agentId)
             withStep == Append(acc, Task(plan_[i].instruction, "Report", a))
         IN  TasksFrom(plan_, agents_map, i + 1,
                       IF NeedsReview(qc_agent, a)
                       THEN Append(withStep,
                                   Task("Review the work just completed by " \o a,
                                        "Review Report", qc_agent))
                       ELSE withStep)

\* agents.py:230-281
create_tasks(plan_, agents_map) ==
    TasksFrom(plan_, agents_map, 1,
              IF MapGet(agents_map, "qc_agent") # ""
              THEN <<Task("Scan the entire codebase", "Codebase Health Report", "qc_agent")>>
              ELSE <<>>)

\* agents.py:258-264  the warnings one call of create_tasks prints
FallbackWarnings(plan_, agents_map) ==
    Cardinality({i \in DOMAIN plan_ : MapGet(agents_map, plan_[i].agentId) = ""})

\* websocket.py:139-143
RECURSIVE TrainIterations(_, _)
TrainIterations(plan_, i) ==
    IF i > Len(plan_) THEN 0
    ELSE LET rest == TrainIterations(plan_, i + 1)
         IN  IF plan_[i].trainingIterations > rest THEN plan_[i].trainingIterations ELSE rest

Event(type, content) == [type |-> type, content |-> content, mission_id |-> 0]

\* mutation of ValidationError: a payload without agents is accepted
ValidationErrorNoAgents(payload) ==
    IF ~payload.present THEN "Missing payload."
    ELSE IF payload.plan.t # "list" \/ payload.plan.v = <<>>
         THEN "Invalid or missing 'plan' in payload."
    ELSE ""

\* websocket.py:48-58  the ERROR content of a rejected payload, "" if it passes
ValidationError(payload) ==
    IF ~payload.present THEN "Missing payload."
    ELSE IF payload.plan.t # "list" \/ payload.plan.v = <<>>
         THEN "Invalid or missing 'plan' in payload."
    ELSE IF payload.agents.t # "list" \/ payload.agents.v = <<>>
         THEN "Invalid or missing 'agents' in payload."
    ELSE ""

\* database.py:125-142  update_mission_result
update_mission_result(table, id, result, status) ==
    [table EXCEPT ![id] = [status |-> status, result |-> result]]

\* mutation of MissionFails: the failed mission keeps its RUNNING record
MissionFailsUnrecorded(e) ==
    /\ db' = db
    /\ sent' = Append(sent, Event("ERROR", "Error: " \o e))
    /\ h_pc' = "receive"

\* websocket.py:162-170  the except branch of the mission's try
MissionFails(e) ==
    /\ db' = update_mission_result(db, mission_id, e, "FAILED")
    /\ sent' = Append(sent, Event("ERROR", "Error: " \o e))
    /\ h_pc' = "receive"

missionVars == <<pc, plan, step_index, agent, instruction, attempts_allowed, current_attempt,
                 step_complete, history, full_description, result_content, grade, req_id,
                 user_decision, request, now, reply, outcome, worker_calls, eval_calls,
                 requests, retries, contributor, warnings, answered>>

\* websocket.py:34-58, 172-176  one message is received; a START_MISSION is
\* validated, a HUMAN_RESPONSE is stored
Receive(msg) ==
    /\ h_pc = "receive"
    /\ data' = msg
    /\ tasks' = <<>>
    /\ h_warnings' = 0
    /\ inbox = <<>>
    /\ tool_pc' = "idle"
    /\ hook_start' = ""
    /\ hook_end' = ""
    /\ UNCHANGED <<missionVars, api_key, mission_id, db, kickoffs, inbox>>
    /\ \/ /\ msg.action = "INVALID_JSON"
          /\ sent' = <<Event("ERROR", "Invalid JSON format")>>
          /\ UNCHANGED <<h_pc, human_input_store>>
       \/ /\ msg.action = "START_MISSION"
          /\ ValidationError(msg.payload) # ""
          /\ sent' = <<Event("ERROR", ValidationError(msg.payload))>>
          /\ UNCHANGED <<h_pc, human_input_store>>
       \/ /\ msg.action = "START_MISSION"
          /\ ValidationError(msg.payload) = ""
          /\ Len(db) < MaxMissions
          /\ sent' = <<>>
          /\ h_pc' = "create"
          /\ UNCHANGED human_input_store
       \/ /\ msg.action = "HUMAN_RESPONSE"
          /\ msg.requestId # -1
          /\ human_input_store' =
                [k \in DOMAIN human_input_store \cup {msg.requestId} |->
                    IF k = msg.requestId THEN msg.content ELSE human_input_store[k]]
          /\ sent' = <<>>
          /\ UNCHANGED h_pc
       \/ /\ msg.action = "HUMAN_RESPONSE"
          /\ msg.requestId = -1
          /\ sent' = <<Event("ERROR", "Invalid HUMAN_RESPONSE payload.")>>
          /\ UNCHANGED <<h_pc, human_input_store>>
       \/ /\ msg.action = "PING"
          /\ sent' = <<>>
          /\ UNCHANGED <<h_pc, human_input_store>>

\* websocket.py:60-79  create_mission and the API key check; the database is
\* reachable for the whole handling of the message, or create_mission raises
CreateMission ==
    /\ h_pc = "create"
    /\ UNCHANGED <<missionVars, toolVars, human_input_store, api_key, data, tasks, h_warnings, kickoffs>>
    /\ \/ /\ sent' = Append(sent, Event("ERROR", "Database Error"))
          /\ h_pc' = "receive"
          /\ UNCHANGED <<mission_id, db>>
       \/ /\ mission_id' = Len(db) + 1
          /\ db' = Append(db, [status |-> "RUNNING", result |-> ""])
          /\ LET started == Append(sent, [type |-> "MISSION_STARTED", content |-> "",
                                          mission_id |-> Len(db) + 1])
             IN  IF api_key
                 THEN sent' = started /\ h_pc' = "setup"
                 ELSE /\ sent' = Append(started, Event("ERROR", "Missing API Key"))
                      /\ h_pc' = "receive"

\* websocket.py:90-150  agents, tasks and crew are built, training is started
\* if the plan asks for it, else crew.kickoff is started
Setup ==
    /\ h_pc = "setup"
    /\ UNCHANGED <<missionVars, toolVars, human_input_store, api_key, data, mission_id>>
    /\ \/ /\ \E e \in SetupErrors : MissionFails(e)
          /\ UNCHANGED <<tasks, h_warnings, kickoffs>>
       \/ /\ LET payload == data.payload
                 agents_map == create_agents(payload.agents.v)
             IN  /\ tasks' = create_tasks(payload.plan.v, agents_map)
                 /\ h_warnings' = FallbackWarnings(payload.plan.v, agents_map)
                 /\ IF TrainIterations(payload.plan.v, 1) > 0
                    THEN /\ sent' = sent \o <<Event("SYSTEM", "Mission Started (SEQUENTIAL)"),
                                              Event("SYSTEM", "Initiating Training Phase")>>
                         /\ h_pc' = "train"
                         /\ UNCHANGED kickoffs
                    ELSE /\ sent' = Append(sent, Event("SYSTEM", "Mission Started (SEQUENTIAL)"))
                         /\ h_pc' = "kickoff"
                         /\ kickoffs' = [kickoffs EXCEPT ![mission_id] = @ + 1]
          /\ UNCHANGED db

\* websocket.py:149-152  crew.train returns or raises
TrainReturns ==
    /\ h_pc = "train"
    /\ UNCHANGED <<missionVars, toolVars, human_input_store, api_key, data, mission_id, tasks, h_warnings>>
    /\ \/ /\ \E e \in TrainErrors : MissionFails(e)
          /\ UNCHANGED kickoffs
       \/ /\ sent' = Append(sent, Event("SYSTEM", "Training Complete. Starting Mission..."))
          /\ h_pc' = "kickoff"
          /\ kickoffs' = [kickoffs EXCEPT ![mission_id] = @ + 1]
          /\ UNCHANGED db

\* websocket.py:152-158  crew.kickoff returns and the result is recorded, or
\* it raises; it does neither in the middle of a tool call, and it may raise
\* when a callback raised
CrewKickoffReturns ==
    /\ h_pc = "kickoff"
    /\ UNCHANGED <<missionVars, toolVars, human_input_store, api_key, data, mission_id, tasks,
                   h_warnings, kickoffs>>
    /\ \/ /\ tool_pc \in {"idle", "ended", "start_raised", "end_raised"}
          /\ \E e \in WorkerErrors : MissionFails(e)
       \/ \E r \in WorkerOutputs :
             /\ tool_pc \in {"idle", "ended", "end_raised"}
             /\ db' = update_mission_result(db, mission_id, r, "COMPLETED")
             /\ h_pc' = "output"
             /\ UNCHANGED sent

\* websocket.py:160, 168-170  the OUTPUT event, then the next message
SendOutput ==
    /\ h_pc = "output"
    /\ sent' = Append(sent, Event("OUTPUT", db[mission_id].result))
    /\ h_pc' = "receive"
    /\ UNCHANGED <<missionVars, toolVars, human_input_store, api_key, data, mission_id, db,
                   tasks, h_warnings, kickoffs>>

\* no run_mission_loop is started: websocket_handler never calls it
InitHandler ==
    /\ InitCommon
    /\ InitHandlerVars
    /\ api_key \in BOOLEAN
    /\ Len(plan[1]) = 1
    /\ pc = [m \in Missions |-> "off"]

NextHandler ==
    \/ \E msg \in Messages : Receive(msg)
    \/ CreateMission
    \/ Setup
    \/ TrainReturns
    \/ CrewKickoffReturns
    \/ SendOutput

SpecHandler == InitHandler /\ [][NextHandler]_vars

(* ------------- the running crew's tool call and the client ------------ *)
\* base_tools.py:28  req_id is the clock in milliseconds at the call: the
\* calls of different missions get different ids, here the mission's id
ToolReqId == mission_id

\* what add_event of a callback does: it stores the event or raises
HookOutcomes == {"logged", "failed"}

\* socket_handler.py:99, 103  add_event is called outside any try: what it
\* raises leaves the callback
CallbackRaises(outcome_) == outcome_ = "failed"

\* socket_handler.py:99-100, 103-104  _safe_send is reached only when
\* add_event returned
EmitsProgress(outcome_) == outcome_ = "logged"

\* socket_handler.py:97-100  on_tool_start of the tool the agent is about to use
OnToolStart ==
    /\ h_pc = "kickoff"
    /\ tool_pc = "idle"
    /\ \E o \in HookOutcomes :
          /\ hook_start' = o
          /\ sent' = IF EmitsProgress(o) THEN Append(sent, Event("ACTION", "Using Ask Human"))
                     ELSE sent
          /\ tool_pc' = IF CallbackRaises(o) THEN "start_raised" ELSE "started"
    /\ UNCHANGED <<missionVars, human_input_store, h_pc, api_key, data, mission_id, db, tasks,
                   h_warnings, kickoffs, inbox, hook_end>>

\* base_tools.py:24-56  WebHumanInputTool._run sends HUMAN_INPUT_REQUEST; the
\* caller of a callback that raised may go on to run the tool
ToolAsks ==
    /\ h_pc = "kickoff"
    /\ tool_pc \in {"started", "start_raised"}
    /\ tool_pc' = "waiting"
    /\ sent' = Append(sent, [type |-> "HUMAN_INPUT_REQUEST", content |-> "question",
                             mission_id |-> 0])
    /\ UNCHANGED <<missionVars, human_input_store, h_pc, api_key, data, mission_id, db, tasks,
                   h_warnings, kickoffs, inbox, hook_start, hook_end>>

\* the client answers the HUMAN_INPUT_REQUEST on the mission's connection
ClientAnswers ==
    /\ tool_pc = "waiting"
    /\ inbox = <<>>
    /\ inbox' = <<[action |-> "HUMAN_RESPONSE", payload |-> NoPayload,
                   requestId |-> ToolReqId, content |-> "yes"]>>
    /\ UNCHANGED <<missionVars, human_input_store, h_pc, api_key, data, mission_id, db, sent,
                   tasks, h_warnings, kickoffs, tool_pc, hook_start, hook_end>>

\* websocket.py:172-174 in the websocket_handler of another connection:
\* human_input_store is shared by all connections of the process
OtherConnectionAnswers ==
    /\ tool_pc = "waiting"
    /\ ToolReqId \notin DOMAIN human_input_store
    /\ human_input_store' =
          [k \in DOMAIN human_input_store \cup {ToolReqId} |->
              IF k = ToolReqId THEN "yes" ELSE human_input_store[k]]
    /\ UNCHANGED <<missionVars, handlerVars>>

\* base_tools.py:61-68  the poll finds the answer and pops it
ToolAnswered ==
    /\ tool_pc = "waiting"
    /\ ToolReqId \in DOMAIN human_input_store
    /\ human_input_store' = Pop(human_input_store, ToolReqId)
    /\ tool_pc' = "answered"
    /\ UNCHANGED <<missionVars, h_pc, api_key, data, mission_id, db, sent, tasks, h_warnings,
                   kickoffs, inbox, hook_start, hook_end>>

\* base_tools.py:59-66  max_wait polls found nothing
ToolTimeout ==
    /\ tool_pc = "waiting"
    /\ ToolReqId \notin DOMAIN human_input_store
    /\ tool_pc' = "timedout"
    /\ UNCHANGED <<missionVars, human_input_store, h_pc, api_key, data, mission_id, db, sent,
                   tasks, h_warnings, kickoffs, inbox, hook_start, hook_end>>

\* socket_handler.py:102-104  on_tool_end with the tool's return value
OnToolEnd ==
    /\ h_pc = "kickoff"
    /\ tool_pc \in {"answered", "timedout"}
    /\ \E o \in HookOutcomes :
          /\ hook_end' = o
          /\ sent' = IF EmitsProgress(o) THEN Append(sent, Event("OUTPUT", "tool output"))
                     ELSE sent
          /\ tool_pc' = IF CallbackRaises(o) THEN "end_raised" ELSE "ended"
    /\ UNCHANGED <<missionVars, human_input_store, h_pc, api_key, data, mission_id, db, tasks,
                   h_warnings, kickoffs, inbox, hook_start>>

\* websocket.py:34, 172-174  receive_json returns the message the client
\* sent while the handler was not receiving
ReceiveQueued ==
    /\ h_pc = "receive"
    /\ inbox # <<>>
    /\ data' = Head(inbox)
    /\ inbox' = Tail(inbox)
    /\ human_input_store' =
          [k \in DOMAIN human_input_store \cup {Head(inbox).requestId} |->
              IF k = Head(inbox).requestId THEN Head(inbox).content ELSE human_input_store[k]]
    /\ sent' = <<>>
    /\ tasks' = <<>>
    /\ h_warnings' = 0
    /\ tool_pc' = "idle"
    /\ hook_start' = ""
    /\ hook_end' = ""
    /\ UNCHANGED <<missionVars, h_pc, api_key, mission_id, db, kickoffs>>

\* websocket.py:160-167, 178-181  the client is gone: send_json of the OUTPUT
\* event raises, the except branch records FAILED, its own send_json raises
\* too and the handler ends
OutputSendFails ==
    /\ h_pc = "output"
    /\ db' = update_mission_result(db, mission_id, "disconnected", "FAILED")
    /\ h_pc' = "closed"
    /\ UNCHANGED <<missionVars, toolVars, human_input_store, api_key, data, mission_id, sent,
                   tasks, h_warnings, kickoffs>>

NextService ==
    \/ NextHandler
    \/ OnToolStart
    \/ ToolAsks
    \/ ClientAnswers
    \/ OtherConnectionAnswers
    \/ ToolAnswered
    \/ ToolTimeout
    \/ OnToolEnd
    \/ ReceiveQueued
    \/ OutputSendFails

SpecService == InitHandler /\ [][NextService]_vars

(* ====================================================================== *)
(* Properties                                                             *)
(* ====================================================================== *)
Last(q) == q[Len(q)]
\* the entries of the context appended by step k
EntriesOf(m, k) == {i \in DOMAIN contributor[m] : contributor[m][i] = k}
\* the entries of the context appended by the steps before k
EntriesBefore(m, k) == {i \in DOMAIN contributor[m] : contributor[m][i] < k}
\* score >= threshold, both being numbers
ScoreReachesThreshold(g) ==
    g.score.t = "int" /\ g.threshold.t = "int" /\ g.score.n >= g.threshold.n
\* the reply is a JSON object whose score is missing or is no number
ScoreMissingOrMalformed(r) == r.kind = "object" /\ r.score.t # "int"

(* C1: when the evaluator call raises or its reply cannot be parsed,       *)
(* evaluate_output returns score 0, the base threshold of the attempt      *)
(* (85, 75, 60) and status Failed, never Passed; run_mission_loop then     *)
(* takes the retry or the escalation path: the step is not completed, the  *)
(* context is unchanged and the loop does not end.                         *)
C1_FailClosedOnEvaluatorError ==
    [][\A m \in Missions :
        /\ (pc[m] = "evaluate" /\ pc'[m] = "graded" /\ EvaluationRaises(reply'[m])) =>
              /\ grade'[m].score = JInt(0)
              /\ grade'[m].threshold =
                    JInt(IF current_attempt[m] = 1 THEN 85
                         ELSE IF current_attempt[m] = 2 THEN 75 ELSE 60)
              /\ grade'[m].status = JStr("Failed")
        /\ (pc[m] = "graded" /\ pc'[m] # "graded" /\ EvaluationRaises(reply[m])) =>
              /\ ~step_complete'[m]
              /\ history'[m] = history[m]
              /\ \/ pc'[m] = "while" /\ current_attempt'[m] = current_attempt[m] + 1
                 \/ pc'[m] = "gate" /\ requests'[m] = requests[m] + 1
      ]_vars

\* the evaluator failed on each of the three attempts and the step escalated
C1_Witness ==
    \E m \in Missions :
        /\ pc[m] = "gate"
        /\ eval_calls[m] = 3
        /\ grade[m].feedback = JStr("Error during grading.")
        /\ grade[m].threshold = JInt(60)

(* C2: a reply whose score is missing or malformed yields a grade that is  *)
(* Failed with score 0, also when the reply says "Passed".                 *)
C2_MalformedScoreIsFailed ==
    \A m \in Missions :
        (pc[m] = "graded" /\ ScoreMissingOrMalformed(reply[m])) =>
            /\ grade[m].score = JInt(0)
            /\ grade[m].status = JStr("Failed")

(* C3: a result takes the Passed branch only if the grade's score is at    *)
(* least the grade's threshold, and a grade whose score is at least its    *)
(* threshold is never handled as Failed.                                   *)
C3_PassIffScoreReachesThreshold ==
    [][\A m \in Missions :
        (pc[m] = "graded" /\ pc'[m] # "graded") =>
            (step_complete'[m] <=> ScoreReachesThreshold(grade[m]))
      ]_vars

(* C4: a step whose first attempt is graded Passed adds exactly one entry  *)
(* to the context, that attempt's result; its worker ran once and no       *)
(* intervention request was created for it.                                *)
C4_FirstAttemptPass ==
    \A m \in Missions :
        LET k == step_index[m] IN
        (k >= 1 /\ outcome[m][k] = "Passed" /\ current_attempt[m] = 1) =>
            /\ Len(history[m]) = Cardinality(EntriesBefore(m, k)) + 1
            /\ Last(history[m]) = result_content[m]
            /\ EntriesOf(m, k) = {Len(history[m])}
            /\ worker_calls[m] = 1
            /\ eval_calls[m] = 1
            /\ requests[m] = 0

\* the second step of a plan passed on its first attempt
C4_Witness ==
    \E m \in Missions :
        /\ step_index[m] = 2
        /\ outcome[m][2] = "Passed"
        /\ current_attempt[m] = 1
        /\ Len(history[m]) = 2

\* mission m leaves the gate in this step
LeavesGate(m) == pc[m] = "gate" /\ pc'[m] # "gate"

(* C5 as stated: a step whose attempts all fail creates exactly one        *)
(* intervention request.                                                   *)
C5_ExactlyOneRequestPerStep ==
    \A m \in Missions : requests[m] <= 1

(* C5, amended: a step whose attempts all fail through attempts_allowed    *)
(* creates exactly one intervention request each time the allowed attempts *)
(* are used up, that is one more than the RETRY decisions it has consumed; *)
(* the loop is never past attempts_allowed without completing or           *)
(* escalating; and while a request is outstanding the step does not        *)
(* complete and the next step does not start until the decision stored     *)
(* under the request's requestId has been popped.                          *)
C5_OneRequestPerExhaustion ==
    /\ [](\A m \in Missions :
            /\ pc[m] = "gate" =>
                  /\ requests[m] = retries[m] + 1
                  /\ eval_calls[m] = attempts_allowed[m]
                  /\ current_attempt[m] = attempts_allowed[m]
                  /\ ~step_complete[m]
                  /\ request[m].requestId = req_id[m]
            /\ (pc[m] \in {"while", "kickoff", "evaluate", "graded"} /\ ~step_complete[m]) =>
                  requests[m] = retries[m]
            /\ (step_index[m] >= 1 /\ step_complete[m]) =>
                  requests[m] = retries[m] +
                      (IF outcome[m][step_index[m]] = "Passed" THEN 0 ELSE 1)
            /\ (pc[m] \in {"while", "for", "done"} /\ step_index[m] >= 1
                  /\ ~step_complete[m]) =>
                  current_attempt[m] <= attempts_allowed[m])
    /\ [][\A m \in Missions :
            (pc[m] = "gate" /\ (step_complete'[m] \/ step_index'[m] # step_index[m]
                                  \/ pc'[m] # "gate")) =>
                /\ req_id[m] \in DOMAIN human_input_store
                /\ req_id[m] \notin DOMAIN human_input_store'
                /\ user_decision'[m] = human_input_store[req_id[m]]
         ]_vars

\* a step escalated, was granted a retry, failed again, escalated a second
\* time and was then completed by the second decision
C5_Witness ==
    \E m \in Missions :
        /\ requests[m] = 2
        /\ retries[m] = 1
        /\ step_complete[m]
        /\ pc[m] = "while"

(* C6: on PROCEED the step completes and the context gains exactly one     *)
(* entry, the result of the last failed attempt; the request carried that  *)
(* same output and the score of that attempt's grade.                      *)
C6_ProceedAppendsLastResult ==
    /\ [](\A m \in Missions :
            pc[m] = "gate" =>
                /\ request[m].failedOutput = result_content[m]
                /\ request[m].score = grade[m].score
                /\ ~IsPassed(grade[m]))
    /\ [][\A m \in Missions :
            (LeavesGate(m) /\ user_decision'[m] = "PROCEED") =>
                /\ history'[m] = Append(history[m], request[m].failedOutput)
                /\ step_complete'[m]
                /\ pc'[m] = "while"
         ]_vars

\* three attempts scored 50, the request carried 50, PROCEED appended the result
C6_Witness ==
    \E m \in Missions :
        /\ step_index[m] >= 1
        /\ outcome[m][step_index[m]] = "PROCEED"
        /\ eval_calls[m] = 3
        /\ grade[m].score = JInt(50)
        /\ Last(history[m]) = result_content[m]
        /\ pc[m] = "for"

(* C7: on IGNORE the step completes and the context is unchanged; no entry *)
(* of the context stems from an ignored step, and the description of every *)
(* attempt is composed from the instruction and that context alone.        *)
C7_IgnoreLeavesContext ==
    /\ [](\A m \in Missions :
            /\ Len(contributor[m]) = Len(history[m])
            /\ \A i \in DOMAIN contributor[m] :
                  outcome[m][contributor[m][i]] \in {"Passed", "PROCEED"}
            /\ pc[m] \in {"kickoff", "evaluate", "graded", "gate"} =>
                  full_description[m] = FullDescription(instruction[m], history[m]))
    /\ [][\A m \in Missions :
            (LeavesGate(m) /\ user_decision'[m] = "IGNORE") =>
                /\ history'[m] = history[m]
                /\ step_complete'[m]
                /\ pc'[m] = "while"
         ]_vars

\* step 1 was ignored and step 2 is being attempted with an empty context
C7_Witness ==
    \E m \in Missions :
        /\ step_index[m] = 2
        /\ outcome[m][1] = "IGNORE"
        /\ pc[m] = "kickoff"
        /\ history[m] = <<>>
        /\ full_description[m] = "do\n\nCONTEXT FROM PREVIOUS STEPS:\n"

(* C8: within a step, after n RETRY decisions attempts_allowed is 3 + 2n;  *)
(* current_attempt never decreases while the step lasts and every RETRY    *)
(* raises it by exactly 1.                                                 *)
C8_RetryExtendsAttempts ==
    /\ [](\A m \in Missions :
            step_index[m] >= 1 => attempts_allowed[m] = 3 + 2 * retries[m])
    /\ [][\A m \in Missions :
            /\ step_index'[m] = step_index[m] =>
                  current_attempt'[m] >= current_attempt[m]
            /\ (LeavesGate(m) /\ user_decision'[m] = "RETRY") =>
                  /\ current_attempt'[m] = current_attempt[m] + 1
                  /\ retries'[m] = retries[m] + 1
         ]_vars

\* a RETRY was consumed and the fourth attempt is running
C8_Witness ==
    \E m \in Missions :
        /\ retries[m] = 1
        /\ attempts_allowed[m] = 5
        /\ current_attempt[m] = 4
        /\ pc[m] = "kickoff"

(* C9: once a CANCEL decision is consumed the loop has ended: no worker    *)
(* and no evaluator call follows for this step or a later one, and the     *)
(* context does not change any more.                                       *)
C9_CancelEndsMission ==
    [][\A m \in Missions :
        /\ (LeavesGate(m) /\ user_decision'[m] = "CANCEL") =>
              /\ pc'[m] = "cancelled"
              /\ history'[m] = history[m]
              /\ ~step_complete'[m]
        /\ pc[m] = "cancelled" =>
              /\ pc'[m] = "cancelled"
              /\ history'[m] = history[m]
              /\ step_index'[m] = step_index[m]
              /\ worker_calls'[m] = worker_calls[m]
              /\ eval_calls'[m] = eval_calls[m]
      ]_vars

\* step 1 of a two-step plan was cancelled
C9_Witness ==
    \E m \in Missions :
        /\ pc[m] = "cancelled"
        /\ user_decision[m] = "CANCEL"
        /\ step_index[m] = 1
        /\ Len(plan[m]) = 2

(* C10: a decision whose action is none of PROCEED, IGNORE, RETRY, CANCEL  *)
(* completes the step and appends the last failing result, as PROCEED does.*)
C10_UnknownActionProceeds ==
    [][\A m \in Missions :
        (LeavesGate(m) /\ user_decision'[m] \notin
              {NoAction, "PROCEED", "IGNORE", "RETRY", "CANCEL"}) =>
            /\ step_complete'[m]
            /\ history'[m] = Append(history[m], result_content[m])
      ]_vars

(* C11: a stored decision is consumed exactly once.  A gate call returns   *)
(* only the decision stored under its request id, the entry is removed in  *)
(* the same step, and no second gate call returns in that step, so one     *)
(* stored decision drives one step transition.                             *)
C11_DecisionConsumedOnce ==
    [][\A m \in Missions :
        LeavesGate(m) =>
            /\ req_id[m] \in DOMAIN human_input_store
            /\ user_decision'[m] = human_input_store[req_id[m]]
            /\ req_id[m] \notin DOMAIN human_input_store'
            /\ \A m2 \in Missions \ {m} : ~LeavesGate(m2)
      ]_vars

\* two missions waited under one request id; the decision was returned to
\* one of them and is gone, the other is still waiting
C11_Witness ==
    \E m1, m2 \in Missions :
        /\ m1 # m2
        /\ pc[m2] = "gate"
        /\ pc[m1] = "while"
        /\ requests[m1] = 1
        /\ user_decision[m1] = "PROCEED"
        /\ req_id[m1] = req_id[m2]
        /\ req_id[m2] \notin DOMAIN human_input_store

(* C12: the steps of a mission run in plan order without overlap.  The     *)
(* step index advances by one, and only when the step before it has        *)
(* completed and none of its calls is open; a worker call starts only when *)
(* every earlier worker call has been evaluated, and an evaluation starts  *)
(* only for the worker call that has just returned.                        *)
C12_SequentialSteps ==
    [][\A m \in Missions :
        /\ step_index'[m] # step_index[m] =>
              /\ step_index'[m] = step_index[m] + 1
              /\ pc[m] = "for"
              /\ step_index[m] = 0 \/ step_complete[m]
              /\ worker_calls[m] = eval_calls[m]
        /\ worker_calls'[m] > worker_calls[m] =>
              /\ pc[m] = "while"
              /\ worker_calls[m] = eval_calls[m]
              /\ pc'[m] = "kickoff"
        /\ eval_calls'[m] > eval_calls[m] =>
              /\ pc[m] = "kickoff"
              /\ eval_calls'[m] = worker_calls[m]
              /\ pc'[m] = "evaluate"
        /\ pc'[m] \in {"kickoff", "evaluate"} => step_index'[m] = step_index[m]
      ]_vars

\* the second step's worker is running after the first step took three
\* attempts and a human decision
C12_Witness ==
    \E m \in Missions :
        /\ step_index[m] = 2
        /\ pc[m] = "kickoff"
        /\ worker_calls[m] = 1
        /\ outcome[m][1] = "PROCEED"

\* the accepted results h[1..n], one per line pair, labelled 1..n
RECURSIVE C13_Rendering(_, _)
C13_Rendering(h, n) ==
    IF n = 0 THEN ""
    ELSE C13_Rendering(h, n - 1) \o (IF n > 1 THEN "\n" ELSE "")
         \o "Previous Output " \o ToString(n) \o ":\n" \o h[n]

C14_WorkerErrorIsGraded ==
    [][\A m \in Missions :
        (pc[m] = "kickoff" /\ pc'[m] # "kickoff") =>
            /\ pc'[m] = "evaluate"
            /\ eval_calls'[m] = eval_calls[m] + 1
            /\ \/ result_content'[m] \in WorkerOutputs
               \/ \E e \in WorkerErrors :
                     result_content'[m] = "Error during execution: " \o e
      ]_vars

\* the worker raised on the third attempt; its error text was graded,
\* failed, and is the failed output of the intervention request
C14_Witness ==
    \E m \in Missions :
        /\ pc[m] = "gate"
        /\ eval_calls[m] = 3
        /\ result_content[m] = "Error during execution: boom"
        /\ request[m].failedOutput = "Error during execution: boom"

(* C15 as stated: a step whose agentId is not in the agents map runs with  *)
(* the first agent of the map and a warning is recorded for it.            *)
C15_FallbackRecordsWarning ==
    \A m \in Missions :
        (/\ pc[m] \in {"while", "kickoff", "evaluate", "graded", "gate"}
         /\ \A i \in DOMAIN AgentIds : AgentIds[i] # plan[m][step_index[m]].agentId) =>
            /\ agent[m] = AgentIds[1]
            /\ warnings[m] >= 1

\* the payload is missing, the plan is no list or empty, or no agent is given
C16_Malformed(payload) ==
    \/ ~payload.present
    \/ payload.plan.t # "list"
    \/ Len(payload.plan.v) = 0
    \/ Len(payload.agents.v) = 0

(* C16: a START_MISSION whose payload is missing, whose plan is empty or   *)
(* no list, or whose agents are empty is answered with one ERROR event:    *)
(* no mission record is created, no crew is built or started, and the      *)
(* handler waits for the next message.                                     *)
C16_MalformedStartRejected ==
    [][(h_pc = "receive" /\ data'.action = "START_MISSION" /\ C16_Malformed(data'.payload)) =>
          /\ Len(sent') = 1
          /\ sent'[1].type = "ERROR"
          /\ db' = db
          /\ kickoffs' = kickoffs
          /\ tasks' = <<>>
          /\ h_pc' = "receive"
      ]_vars

\* after a completed mission, a START_MISSION without agents was rejected
C16_Witness ==
    /\ h_pc = "receive"
    /\ data.action = "START_MISSION"
    /\ data.payload.present
    /\ Len(data.payload.plan.v) = 1
    /\ data.payload.agents.v = <<>>
    /\ sent = <<Event("ERROR", "Invalid or missing 'agents' in payload.")>>
    /\ Len(db) = 1
    /\ db[1].status = "COMPLETED"
    /\ kickoffs[1] = 1

C18_PendingRequestIdsDiffer ==
    \A m1, m2 \in Missions :
        (m1 # m2 /\ pc[m1] = "gate" /\ pc[m2] = "gate") => req_id[m1] # req_id[m2]

(* C19: the base threshold of evaluate_output, which is the threshold of   *)
(* the grade when the evaluator fails or names none, is 85 for attempt 1,  *)
(* 75 for attempt 2 and 60 for every later attempt, and so never rises     *)
(* with the attempt number.                                                *)
C19_BaseThresholdByAttempt ==
    /\ \A m \in Missions :
          (/\ pc[m] = "graded"
           /\ EvaluationRaises(reply[m]) \/ reply[m].threshold = JMissing) =>
              grade[m].threshold =
                  JInt(IF current_attempt[m] = 1 THEN 85
                       ELSE IF current_attempt[m] = 2 THEN 75 ELSE 60)
    /\ \A a, b \in 1..(InitialAttempts + MaxRetries * ExtraAttempts) :
          a <= b => BaseThreshold(b) <= BaseThreshold(a)

\* the fifth attempt, granted by RETRY, was graded against threshold 60
C19_Witness ==
    \E m \in Missions :
        /\ pc[m] = "graded"
        /\ current_attempt[m] = 5
        /\ retries[m] = 1
        /\ reply[m].kind = "object"
        /\ reply[m].threshold = JMissing
        /\ grade[m].threshold = JInt(60)

\* the agent create_tasks gives step i of the plan q under the map
C20_Worker(q, agents_map, i) ==
    IF \E k \in DOMAIN agents_map : agents_map[k] = q[i].agentId
    THEN q[i].agentId ELSE agents_map[1]
\* the position of step i's task in the result
C20_Position(q, agents_map, i) ==
    1 + i + Cardinality({j \in 1..(i - 1) : C20_Worker(q, agents_map, j) # "qc_agent"})

(* C20: for a plan of n steps and a map holding the QC agent, create_tasks *)
(* returns the initial QC scan, then per step in plan order the step's     *)
(* task with the step's agent, followed at once by a QC review unless that *)
(* agent is the QC agent; a one-step plan gives [QC, worker, QC].          *)
C20_TaskOrder ==
    tasks # <<>> =>
        LET q == data.payload.plan.v
            agents_map == create_agents(data.payload.agents.v)
            n == Len(q)
        IN  /\ tasks[1].agent = "qc_agent"
            /\ tasks[1].expected_output = "Codebase Health Report"
            /\ Len(tasks) =
                  1 + n + Cardinality({j \in 1..n : C20_Worker(q, agents_map, j) # "qc_agent"})
            /\ \A i \in 1..n :
                  LET w == C20_Worker(q, agents_map, i)
                      at == C20_Position(q, agents_map, i)
                  IN  /\ tasks[at] = [description |-> q[i].instruction,
                                      expected_output |-> "Report", agent |-> w]
                      /\ w # "qc_agent" =>
                            /\ tasks[at + 1].agent = "qc_agent"
                            /\ tasks[at + 1].expected_output = "Review Report"
            /\ (n = 1 /\ C20_Worker(q, agents_map, 1) # "qc_agent") =>
                  /\ Len(tasks) = 3
                  /\ <<tasks[1].agent, tasks[2].agent, tasks[3].agent>> =
                        <<"qc_agent", C20_Worker(q, agents_map, 1), "qc_agent">>

\* the tasks of a plan whose first step is the QC agent's own and whose
\* second step is agent a1's
C20_Witness ==
    /\ h_pc = "kickoff"
    /\ Len(data.payload.plan.v) = 2
    /\ data.payload.plan.v[1].agentId = "qc_agent"
    /\ data.payload.plan.v[2].agentId = "a1"
    /\ Len(tasks) = 4
    /\ <<tasks[1].agent, tasks[2].agent, tasks[3].agent, tasks[4].agent>> =
          <<"qc_agent", "qc_agent", "a1", "qc_agent">>

(* C21: a mission has an intervention request outstanding exactly while it *)
(* waits in the gate, a request is published only when none is             *)
(* outstanding, and while one is outstanding the mission starts no worker  *)
(* call and no evaluation and changes neither its context nor its attempt  *)
(* counters.                                                               *)
C21_OneOutstandingRequest ==
    /\ [](\A m \in Missions : (pc[m] = "gate") <=> (request[m] # NoRequest))
    /\ [][\A m \in Missions :
            /\ requests'[m] > requests[m] =>
                  /\ request[m] = NoRequest
                  /\ requests'[m] = requests[m] + 1
            /\ (request[m] # NoRequest /\ request'[m] # NoRequest) =>
                  /\ request'[m] = request[m]
                  /\ worker_calls'[m] = worker_calls[m]
                  /\ eval_calls'[m] = eval_calls[m]
                  /\ history'[m] = history[m]
                  /\ current_attempt'[m] = current_attempt[m]
                  /\ attempts_allowed'[m] = attempts_allowed[m]
            /\ (worker_calls'[m] > worker_calls[m] \/ eval_calls'[m] > eval_calls[m]) =>
                  request[m] = NoRequest
        ]_vars

\* the step's second request is outstanding and a decision for it is stored
C21_Witness ==
    \E m \in Missions :
        /\ pc[m] = "gate"
        /\ requests[m] = 2
        /\ request[m].requestId = req_id[m]
        /\ req_id[m] \in DOMAIN human_input_store

(* C22: during a step 1 <= current_attempt <= attempts_allowed.  The while *)
(* loop of a step ends only with the step complete (passed, or completed   *)
(* by a decision), and the mission loop ends inside a step only out of the *)
(* gate, that is after an intervention request was published.              *)
C22_AttemptWithinBound ==
    /\ [](\A m \in Missions :
            pc[m] \in {"while", "kickoff", "evaluate", "graded", "gate"} =>
                /\ 1 <= current_attempt[m]
                /\ current_attempt[m] <= attempts_allowed[m])
    /\ [][\A m \in Missions :
            /\ (pc[m] = "while" /\ pc'[m] = "for") =>
                  /\ step_complete[m]
                  /\ outcome[m][step_index[m]] \in {"Passed", "PROCEED", "IGNORE", "else"}
            /\ (pc[m] # pc'[m] /\ pc'[m] \in {"cancelled", "raised"}) =>
                  /\ pc[m] = "gate"
                  /\ requests[m] >= 1
                  /\ pc'[m] = "cancelled" => user_decision'[m] = "CANCEL"
        ]_vars

\* the last attempt granted by RETRY has failed and the human is asked again
C22_Witness ==
    \E m \in Missions :
        /\ pc[m] = "gate"
        /\ current_attempt[m] = 5
        /\ attempts_allowed[m] = 5

(* C23: the context only grows.  In every step history is unchanged or     *)
(* gets the current result as one new last entry, the earlier entries stay *)
(* as they are, a step contributes at most one entry, and a failed grade   *)
(* leaves history unchanged.                                               *)
C23_ContextOnlyGrows ==
    /\ [](\A m \in Missions : \A k \in StepIdx : Cardinality(EntriesOf(m, k)) <= 1)
    /\ [][\A m \in Missions :
            /\ \/ history'[m] = history[m]
               \/ /\ Len(history'[m]) = Len(history[m]) + 1
                  /\ SubSeq(history'[m], 1, Len(history[m])) = history[m]
                  /\ Last(history'[m]) = result_content[m]
            /\ (pc[m] = "graded" /\ ~IsPassed(grade[m])) => history'[m] = history[m]
        ]_vars

\* two steps contributed one entry each, the second an error text that passed
C23_Witness ==
    \E m \in Missions :
        /\ history[m] = <<"r1", "Error during execution: boom">>
        /\ contributor[m] = <<1, 2>>

(* C26: every attempt of a step gives the worker the same description: the *)
(* one composed for the step's first attempt.  A failed attempt with       *)
(* attempts left changes only current_attempt, not the instruction, the    *)
(* agent, the context or the number of attempts allowed.                   *)
C26_SameInputForEveryAttempt ==
    [][\A m \in Missions :
        /\ (pc[m] = "while" /\ pc'[m] = "kickoff" /\ worker_calls[m] >= 1) =>
              full_description'[m] = full_description[m]
        /\ (pc[m] = "graded" /\ pc'[m] = "while" /\ ~IsPassed(grade[m])) =>
              /\ current_attempt'[m] = current_attempt[m] + 1
              /\ history'[m] = history[m]
              /\ instruction'[m] = instruction[m]
              /\ agent'[m] = agent[m]
              /\ attempts_allowed'[m] = attempts_allowed[m]
              /\ full_description'[m] = full_description[m]
      ]_vars

\* the third attempt of step 2 runs with the description of its first
C26_Witness ==
    \E m \in Missions :
        /\ pc[m] = "kickoff"
        /\ step_index[m] = 2
        /\ current_attempt[m] = 3
        /\ worker_calls[m] = 3
        /\ grade[m].status = JStr("Failed")
        /\ full_description[m] = "do\n\nCONTEXT FROM PREVIOUS STEPS:\nPrevious Output 1:\nr1"

(* C27: when a step asks for a human decision its worker has been called   *)
(* exactly 3 times if no RETRY was given yet, and exactly 2 more times for *)
(* every RETRY; a step that got n RETRY decisions has called the worker at *)
(* most 3 + 2n times.                                                      *)
C27_BoundedAutomaticRetry ==
    \A m \in Missions :
        /\ pc[m] = "gate" =>
              /\ worker_calls[m] = 3 + 2 * retries[m]
              /\ requests[m] = retries[m] + 1
        /\ worker_calls[m] <= 3 + 2 * retries[m]

\* after one RETRY the worker has been called five times and the human is
\* asked the second time
C27_Witness ==
    \E m \in Missions :
        /\ pc[m] = "gate"
        /\ retries[m] = 1
        /\ worker_calls[m] = 5
        /\ requests[m] = 2

(* C24 as stated: a HUMAN_RESPONSE the client sends on the mission's       *)
(* connection while the tool waits for it is received and stored while the *)
(* crew still runs, so the tool never gives up waiting with that message   *)
(* still unreceived.                                                       *)
C24_ResponseReceivedWhileRunning ==
    tool_pc = "timedout" => inbox = <<>>

(* C25 as stated: when add_event fails in on_tool_start or on_tool_end the *)
(* callback does not raise and the tool's progress event is still sent.    *)
C25_HookFailureHarmless ==
    /\ hook_start = "failed" =>
          /\ tool_pc # "start_raised"
          /\ \E k \in DOMAIN sent : sent[k].type = "ACTION"
    /\ hook_end = "failed" =>
          /\ tool_pc # "end_raised"
          /\ \E k \in DOMAIN sent : sent[k] = Event("OUTPUT", "tool output")

(* C28 as stated: with every call returning, every request answered once   *)
(* under its request id and finitely many RETRY decisions, every mission   *)
(* loop ends, also when two missions wait in the gate at the same time.    *)
C28_EveryMissionTerminates ==
    <>(\A m \in Missions : pc[m] \in {"done", "cancelled"})

(* C29 as stated: once a mission is recorded COMPLETED, nothing the        *)
(* handler does later for it changes its recorded status or result.        *)
C29_CompletedIsStable ==
    [][\A i \in DOMAIN db : db[i].status = "COMPLETED" => db'[i] = db[i]]_vars

(* C30 as stated: whenever the handler is back at waiting for the next     *)
(* message, every mission it created is COMPLETED or FAILED.               *)
C30_NoMissionLeftRunning ==
    h_pc = "receive" => \A i \in DOMAIN db : db[i].status \in {"COMPLETED", "FAILED"}

=============================================================================
